---- MODULE Spec2Model ----
(***************************************************************************)
(* rocket_csrf_guard: the token / verifier / proof protocol, the           *)
(* double-submit cookie and the form and header wrappers, as a state       *)
(* machine over a client (its cookie jar) and the requests in flight.      *)
(*                                                                         *)
(* Every request owns its cookie jar (the cookies it was sent with plus    *)
(* the pending operations of this request) and its request-local cache.    *)
(* The host hands the pending cookie operations to the client with the     *)
(* response.                                                               *)
(***************************************************************************)
EXTENDS Integers, Sequences, FiniteSets, TLC

\* ------------------------------------------------------------------ bounds
NumTokens == 2
NumReqs == 2
MaxOps == 2

Tokens == 1..NumTokens
Reqs == 1..NumReqs

\* --------------------------------------------------------- program constants
Forbidden == 403
InternalServerError == 500
UnprocessableEntity == 422

\* ------------------------------------------------------------------ values
NoToken == 0
NoCookie == <<>>
NoProof == "none"
PassedCsrfChecks == "PassedCsrfChecks"

ProofKinds == {"CsrfCheckProof", "StepUp"}
ProofValues(k) == IF k = "CsrfCheckProof" THEN {PassedCsrfChecks} ELSE {"StepUp1", "StepUp2"}
DefaultProof(k) == IF k = "CsrfCheckProof" THEN PassedCsrfChecks ELSE "StepUp1"

\* Result<Proof, Error> of verify
Ok(p) == [ok |-> TRUE, proof |-> p, err |-> "none"]
Err(e) == [ok |-> FALSE, proof |-> NoProof, err |-> e]

\* Outcome<S, E>: Success(value) | Error((status, error)) | Forward(status)
Success == "Success"
Error == "Error"
Forward == "Forward"

\* ------------------------------------------------------- the host's cookie jar
\* A private cookie travels encrypted; get_private gives the plain value of a
\* cookie that decrypts, and nothing for a cookie that does not.
Encrypt(v) == <<"private", v>>
Decrypt(c) == IF c # NoCookie /\ c[1] = "private" THEN c[2] ELSE NoToken

\* CookieJar::get_private reads the cookies the request came with, not the
\* operations pending in this request.
get_private(jar) == Decrypt(jar)

RemoveOp == <<"remove">>
AddOp(v) == <<"add", Encrypt(v)>>

\* CookieJar::remove / add_private queue an operation for the response.
cookies_remove_noop(ops) == ops
cookies_remove(ops) == Append(ops, RemoveOp)
cookies_add_private(ops, v) == Append(ops, AddOp(v))

\* The cookie the response leaves the client with: the last queued operation
\* decides; a removal is sent for a cookie the request came with.
Outgoing(jar, ops, held) ==
    IF ops = <<>> THEN held
    ELSE LET op == ops[Len(ops)] IN
         IF op[1] = "add" THEN op[2]
         ELSE IF jar # NoCookie THEN NoCookie ELSE held

\* --------------------------------------------------- the request-local cache
\* Request::local_cache(f): the slot of a type is set by the first call made
\* for that type and returned unchanged by every later one.
EmptyCache == [k \in ProofKinds |-> "Unset"]
local_cache_overwrite(cache, k, v) == [cache EXCEPT ![k] = v]
local_cache(cache, k, v) == IF cache[k] = "Unset" THEN [cache EXCEPT ![k] = v] ELSE cache

set_proof_in_cache_noop(cache, k, proof) == cache
set_proof_in_cache_one_slot(cache, k, proof) == local_cache(cache, "CsrfCheckProof", proof)
set_proof_in_cache(cache, k, proof) == local_cache(cache, k, proof)

\* CsrfCheckProof::from_request
CsrfCheckProof_from_request_default_pass(cache) ==
    [outcome |-> Success, status |-> 0, proof |-> PassedCsrfChecks,
     cache |-> local_cache(cache, "CsrfCheckProof", "None")]
CsrfCheckProof_from_request(cache) ==
    LET cache2 == local_cache(cache, "CsrfCheckProof", "None")
        cached == cache2["CsrfCheckProof"]
    IN IF cached # "None"
       THEN [outcome |-> Success, status |-> 0, proof |-> cached, cache |-> cache2]
       ELSE [outcome |-> Forward, status |-> InternalServerError, proof |-> NoProof,
             cache |-> cache2]

\* ------------------------------------------------------------ token sources
\* WithUserProvidedCsrfToken::csrf_token for a parsed payload (Form<T> hands
\* the call to T), a header-sourced token and a manually sourced token.
Payload(t) == [source |-> "Form", inner |-> [csrf_token |-> t]]
CsrfTokenSourcedFromHeader(t) == [source |-> "Header", inner |-> [csrf_token |-> t]]
NoPayload == [source |-> "none", inner |-> [csrf_token |-> NoToken]]
ManuallySourcedCsrfToken(t) == [source |-> "Manual", inner |-> [csrf_token |-> t]]
csrf_token_by_origin(src) ==
    IF src.source = "Form" THEN src.inner.csrf_token ELSE NoToken
csrf_token(src) == src.inner.csrf_token

\* ---------------------------------------------------------------- verifiers
\* A verifier value: the double-submit verifier holds the cookie value read at
\* its construction; a known-expected verifier answers expected_token(); any
\* other implementor of CsrfTokenVerifier accepts a set of tokens and fails
\* with the error of its choice.
NoVerifier ==
    [kind |-> "none", expected |-> NoToken, accepts |-> {}, err |-> "none",
     pkind |-> "CsrfCheckProof", proof |-> NoProof]
DoubleSubmitCookieCsrfToken(v) ==
    [kind |-> "DoubleSubmit", expected |-> v, accepts |-> {}, err |-> "none",
     pkind |-> "CsrfCheckProof", proof |-> PassedCsrfChecks]

\* impl CsrfTokenVerifier for DoubleSubmitCookieCsrfToken
DoubleSubmit_verify_any(self, src) == Ok(PassedCsrfChecks)
DoubleSubmit_verify_leaky(self, src) ==
    IF csrf_token(src) = self.expected
    THEN Ok(PassedCsrfChecks)
    ELSE Err(IF csrf_token(src) = 1 THEN "CsrfTokenMismatch_got_1" ELSE "CsrfTokenMismatch")
DoubleSubmit_verify(self, src) ==
    IF csrf_token(src) = self.expected
    THEN Ok(PassedCsrfChecks)
    ELSE Err("CsrfTokenMismatch")

\* impl CsrfTokenVerifier for T: VerifierWithKnownExpectedToken
expected_token(self) == self.expected
KnownExpected_verify_unknown(self, src) ==
    IF csrf_token(src) = expected_token(self)
    THEN Ok(DefaultProof(self.pkind))
    ELSE Err("Unknown")
KnownExpected_verify(self, src) ==
    IF csrf_token(src) = expected_token(self)
    THEN Ok(DefaultProof(self.pkind))
    ELSE Err("CsrfTokenMismatch")

\* trait CsrfTokenVerifier, any other implementor
Custom_verify(self, src) ==
    IF csrf_token(src) \in self.accepts THEN Ok(self.proof) ELSE Err(self.err)

verify(self, src) ==
    CASE self.kind = "DoubleSubmit" -> DoubleSubmit_verify(self, src)
      [] self.kind = "KnownExpected" -> KnownExpected_verify(self, src)
      [] OTHER -> Custom_verify(self, src)

\* impl FromRequest for DoubleSubmitCookieCsrfToken: the cookie is read and its
\* removal queued in the same step; no cookie forwards.
NoStatus == 0
DoubleSubmit_from_request_keep(jar, ops) ==
    LET maybe_csrf_token == get_private(jar) IN
    IF maybe_csrf_token = NoToken
    THEN [outcome |-> Forward, status |-> NoStatus, verifier |-> NoVerifier, ops |-> ops]
    ELSE [outcome |-> Success, status |-> NoStatus,
          verifier |-> DoubleSubmitCookieCsrfToken(maybe_csrf_token), ops |-> ops]
DoubleSubmit_from_request_default(jar, ops) ==
    LET maybe_csrf_token == get_private(jar) IN
    [outcome |-> Success, status |-> NoStatus,
     verifier |-> DoubleSubmitCookieCsrfToken(maybe_csrf_token),
     ops |-> IF maybe_csrf_token = NoToken THEN ops ELSE cookies_remove(ops)]
DoubleSubmit_from_request_rewrite(jar, ops) ==
    LET maybe_csrf_token == get_private(jar) IN
    IF maybe_csrf_token = NoToken
    THEN [outcome |-> Forward, status |-> NoStatus, verifier |-> NoVerifier, ops |-> ops]
    ELSE [outcome |-> Success, status |-> NoStatus,
          verifier |-> DoubleSubmitCookieCsrfToken(maybe_csrf_token),
          ops |-> cookies_add_private(ops, maybe_csrf_token)]
DoubleSubmit_from_request(jar, ops) ==
    LET maybe_csrf_token == get_private(jar) IN
    IF maybe_csrf_token = NoToken
    THEN [outcome |-> Forward, status |-> NoStatus, verifier |-> NoVerifier, ops |-> ops]
    ELSE [outcome |-> Success, status |-> NoStatus,
          verifier |-> DoubleSubmitCookieCsrfToken(maybe_csrf_token),
          ops |-> cookies_remove(ops)]

\* The verifier types a wrapper is used with, and what the request guard of
\* each gives in this request.
VSelDoubleSubmit ==
    [kind |-> "DoubleSubmit", gout |-> Success, gstatus |-> NoStatus, expected |-> NoToken,
     accepts |-> {}, err |-> "none", pkind |-> "CsrfCheckProof", proof |-> PassedCsrfChecks]
VSelKnownExpected ==
    {[kind |-> "KnownExpected", gout |-> Success, gstatus |-> NoStatus, expected |-> e,
      accepts |-> {}, err |-> "none", pkind |-> k, proof |-> DefaultProof(k)]
        : e \in Tokens, k \in ProofKinds}
    \cup {[kind |-> "KnownExpected", gout |-> o[1], gstatus |-> o[2], expected |-> NoToken,
           accepts |-> {}, err |-> "none", pkind |-> "CsrfCheckProof", proof |-> NoProof]
            : o \in {<<Forward, InternalServerError>>, <<Error, 401>>}}
VSelCustom ==
    {[kind |-> "Custom", gout |-> Success, gstatus |-> NoStatus, expected |-> NoToken,
      accepts |-> {}, err |-> e, pkind |-> "StepUp", proof |-> "StepUp2"]
        : e \in {"CsrfTokenMismatch", "Unknown"}}
    \cup {[kind |-> "Custom", gout |-> Success, gstatus |-> NoStatus, expected |-> NoToken,
           accepts |-> Tokens, err |-> "Unknown", pkind |-> kp[1], proof |-> kp[2]]
            : kp \in {<<"CsrfCheckProof", PassedCsrfChecks>>, <<"StepUp", "StepUp2">>}}
VSel == {VSelDoubleSubmit} \cup VSelKnownExpected \cup VSelCustom

\* request.guard::<V>()
guard_V(v, jar, ops) ==
    IF v.kind = "DoubleSubmit" THEN DoubleSubmit_from_request(jar, ops)
    ELSE [outcome |-> v.gout, status |-> v.gstatus,
          verifier |-> IF v.gout = Success
                       THEN [kind |-> v.kind, expected |-> v.expected, accepts |-> v.accepts,
                             err |-> v.err, pkind |-> v.pkind, proof |-> v.proof]
                       ELSE NoVerifier,
          ops |-> ops]

\* ------------------------------------------------------- outcomes and errors
\* CsrfProtectedFormError, CsrfProtectedFormWithGuardError and
\* CheckCsrfProtectionHeaderError values: the variant, the wrapped variant, and
\* the status and error value a variant carries.
NoError == [variant |-> "none", inner |-> "none", status |-> NoStatus, value |-> "none"]
FormError(variant, e) ==
    [variant |-> variant, inner |-> "none", status |-> NoStatus, value |-> e]
CsrfProtection(fe) ==
    [variant |-> "CsrfProtection", inner |-> fe.variant, status |-> NoStatus, value |-> fe.value]
FromRequestForwarded ==
    [variant |-> "FromRequestForwarded", inner |-> "none", status |-> NoStatus, value |-> "none"]
FromRequestFailed(status, e) ==
    [variant |-> "FromRequestFailed", inner |-> "none", status |-> status, value |-> e]

NotRun == [ok |-> FALSE, proof |-> NoProof, err |-> "not_run"]
NoGuard == [ran |-> FALSE, outcome |-> "none", value |-> "none"]

\* What one run of a wrapper leaves: its outcome, what it hands to the caller
\* (form, proof, guard), the steps it went through, what verify answered, and
\* the request's pending cookie operations and cache after it.
Result(outcome, status, error, form, proof, guard, steps, vres, verifier, ops, cache) ==
    [outcome |-> outcome, status |-> status, error |-> error, form |-> form,
     proof |-> proof, guard |-> guard, steps |-> steps, vres |-> vres,
     verifier |-> verifier, ops |-> ops, cache |-> cache]

\* F::from_data for the payload type F of the route: the parsed payload, a
\* parsing error with its status, or a forward.
PIn ==
    {[outcome |-> Success, status |-> NoStatus, err |-> "none", payload |-> Payload(t)]
        : t \in Tokens}
    \cup {[outcome |-> Error, status |-> st, err |-> "missing_field", payload |-> NoPayload]
            : st \in {UnprocessableEntity, 400}}
    \cup {[outcome |-> Forward, status |-> 404, err |-> "none", payload |-> NoPayload]}

\* A parsing failure keeps the parser's status and wraps its error.
on_parse_error_fixed(pin) ==
    [status |-> UnprocessableEntity, error |-> FormError("FormParsing", pin.err)]
on_parse_error(pin) ==
    [status |-> pin.status, error |-> FormError("FormParsing", pin.err)]

\* CsrfProtectedForm::from_data, from the call of verify on: an error answers
\* 403, a proof is published and returned with the form.
CsrfProtectedForm_verified_open(verifier, inner, ops, cache) ==
    LET r == verify(verifier, inner)
        proof == IF r.ok THEN r.proof ELSE DefaultProof(verifier.pkind)
    IN Result(Success, NoStatus, NoError, inner, proof, NoGuard,
              <<"extract", "parse", "verify", "publish">>, r, verifier, ops,
              set_proof_in_cache(cache, verifier.pkind, proof))
CsrfProtectedForm_verified(verifier, inner, ops, cache) ==
    LET r == verify(verifier, inner) IN
    IF r.ok
    THEN Result(Success, NoStatus, NoError, inner, r.proof, NoGuard,
                <<"extract", "parse", "verify", "publish">>, r, verifier, ops,
                set_proof_in_cache(cache, verifier.pkind, r.proof))
    ELSE Result(Error, Forbidden, FormError("CsrfTokenVerificationError", "none"),
                NoPayload, NoProof, NoGuard, <<"extract", "parse", "verify">>, r,
                verifier, ops, cache)

\* impl FromData for CsrfProtectedForm<V, F>
CsrfProtectedForm_from_data(v, pin, jar, ops, cache) ==
    LET g == guard_V(v, jar, ops) IN
    IF g.outcome = Error
    THEN Result(Error, g.status, FormError("NoVerifierFound", "none"), NoPayload, NoProof,
                NoGuard, <<"extract">>, NotRun, NoVerifier, g.ops, cache)
    ELSE IF g.outcome = Forward
    THEN Result(Forward, g.status, NoError, NoPayload, NoProof,
                NoGuard, <<"extract">>, NotRun, NoVerifier, g.ops, cache)
    ELSE IF pin.outcome = Error
    THEN Result(Error, on_parse_error(pin).status, on_parse_error(pin).error, NoPayload,
                NoProof, NoGuard, <<"extract", "parse">>, NotRun, g.verifier, g.ops, cache)
    ELSE IF pin.outcome = Forward
    THEN Result(Forward, pin.status, NoError, NoPayload, NoProof,
                NoGuard, <<"extract", "parse">>, NotRun, g.verifier, g.ops, cache)
    ELSE CsrfProtectedForm_verified(g.verifier, pin.payload, g.ops, cache)

\* The guard types G a guarded form is used with: the proof consumer, or any
\* other request guard with the outcome it gives in this request.
GSel ==
    {[kind |-> "CsrfCheckProof", gout |-> Success, gstatus |-> NoStatus, gerr |-> "none"]}
    \cup {[kind |-> "Other", gout |-> o[1], gstatus |-> o[2], gerr |-> o[3]]
            : o \in {<<Success, NoStatus, "none">>, <<Error, 401, "guard_error">>,
                     <<Forward, 404, "none">>}}
NoGSel == [kind |-> "none", gout |-> "none", gstatus |-> NoStatus, gerr |-> "none"]

\* request.guard::<G>()
guard_G(gs, cache) ==
    IF gs.kind = "CsrfCheckProof"
    THEN LET c == CsrfCheckProof_from_request(cache) IN
         [outcome |-> c.outcome, status |-> c.status, error |-> "none",
          value |-> c.proof, cache |-> c.cache]
    ELSE [outcome |-> gs.gout, status |-> gs.gstatus, error |-> gs.gerr,
          value |-> "guard_value", cache |-> cache]

\* CsrfProtectedFormWithGuard::from_data, from the call of verify on: an error
\* answers 403 without running G; a proof is published, then G runs, and its
\* error or forward fails the whole.
CsrfProtectedFormWithGuard_verified_unknown(verifier, form, gs, ops, cache) ==
    LET r == verify(verifier, form)
        cache2 == set_proof_in_cache(cache, verifier.pkind, r.proof)
        gg == guard_G(gs, cache2)
        steps == <<"extract", "parse", "verify", "publish", "guard">>
        ran == [ran |-> TRUE, outcome |-> gg.outcome, value |-> "none"]
    IN IF r.ok
       THEN IF gg.outcome = Success
            THEN Result(Success, NoStatus, NoError, form, r.proof,
                        [ran EXCEPT !.value = gg.value], steps, r, verifier, ops, gg.cache)
            ELSE IF gg.outcome = Error
            THEN Result(Error, gg.status, FromRequestFailed(gg.status, gg.error),
                        NoPayload, NoProof, ran, steps, r, verifier, ops, gg.cache)
            ELSE Result(Error, InternalServerError, FromRequestForwarded,
                        NoPayload, NoProof, ran, steps, r, verifier, ops, gg.cache)
       ELSE Result(Error, IF r.err = "Unknown" THEN InternalServerError ELSE Forbidden,
                   CsrfProtection(FormError("CsrfTokenVerificationError", "none")),
                   NoPayload, NoProof, NoGuard, <<"extract", "parse", "verify">>, r,
                   verifier, ops, cache)
CsrfProtectedFormWithGuard_verified_ignoring_guard(verifier, form, gs, ops, cache) ==
    LET r == verify(verifier, form)
        cache2 == set_proof_in_cache(cache, verifier.pkind, r.proof)
        gg == guard_G(gs, cache2)
        steps == <<"extract", "parse", "verify", "publish", "guard">>
    IN IF r.ok
       THEN Result(Success, NoStatus, NoError, form, r.proof,
                   [ran |-> TRUE, outcome |-> gg.outcome, value |-> gg.value], steps, r,
                   verifier, ops, gg.cache)
       ELSE Result(Error, Forbidden,
                   CsrfProtection(FormError("CsrfTokenVerificationError", "none")),
                   NoPayload, NoProof, NoGuard, <<"extract", "parse", "verify">>, r,
                   verifier, ops, cache)
CsrfProtectedFormWithGuard_verified_forwarding(verifier, form, gs, ops, cache) ==
    LET r == verify(verifier, form)
        cache2 == set_proof_in_cache(cache, verifier.pkind, r.proof)
        gg == guard_G(gs, cache2)
        steps == <<"extract", "parse", "verify", "publish", "guard">>
        ran == [ran |-> TRUE, outcome |-> gg.outcome, value |-> "none"]
    IN IF r.ok
       THEN IF gg.outcome = Success
            THEN Result(Success, NoStatus, NoError, form, r.proof,
                        [ran EXCEPT !.value = gg.value], steps, r, verifier, ops, gg.cache)
            ELSE IF gg.outcome = Error
            THEN Result(Error, gg.status, FromRequestFailed(gg.status, gg.error),
                        NoPayload, NoProof, ran, steps, r, verifier, ops, gg.cache)
            ELSE Result(Forward, gg.status, NoError,
                        NoPayload, NoProof, ran, steps, r, verifier, ops, gg.cache)
       ELSE Result(Error, Forbidden,
                   CsrfProtection(FormError("CsrfTokenVerificationError", "none")),
                   NoPayload, NoProof, NoGuard, <<"extract", "parse", "verify">>, r,
                   verifier, ops, cache)
CsrfProtectedFormWithGuard_verified_guard_first(verifier, form, gs, ops, cache) ==
    LET r == verify(verifier, form)
        gg == guard_G(gs, cache)
        cache2 == set_proof_in_cache(gg.cache, verifier.pkind, r.proof)
        steps == <<"extract", "parse", "verify", "guard", "publish">>
        ran == [ran |-> TRUE, outcome |-> gg.outcome, value |-> "none"]
    IN IF r.ok
       THEN IF gg.outcome = Success
            THEN Result(Success, NoStatus, NoError, form, r.proof,
                        [ran EXCEPT !.value = gg.value], steps, r, verifier, ops, cache2)
            ELSE IF gg.outcome = Error
            THEN Result(Error, gg.status, FromRequestFailed(gg.status, gg.error),
                        NoPayload, NoProof, ran, steps, r, verifier, ops, cache2)
            ELSE Result(Error, InternalServerError, FromRequestForwarded,
                        NoPayload, NoProof, ran, steps, r, verifier, ops, cache2)
       ELSE Result(Error, Forbidden,
                   CsrfProtection(FormError("CsrfTokenVerificationError", "none")),
                   NoPayload, NoProof, NoGuard, <<"extract", "parse", "verify">>, r,
                   verifier, ops, cache)
CsrfProtectedFormWithGuard_verified(verifier, form, gs, ops, cache) ==
    LET r == verify(verifier, form)
        cache2 == set_proof_in_cache(cache, verifier.pkind, r.proof)
        gg == guard_G(gs, cache2)
        steps == <<"extract", "parse", "verify", "publish", "guard">>
        ran == [ran |-> TRUE, outcome |-> gg.outcome, value |-> "none"]
    IN IF r.ok
       THEN IF gg.outcome = Success
            THEN Result(Success, NoStatus, NoError, form, r.proof,
                        [ran EXCEPT !.value = gg.value], steps, r, verifier, ops, gg.cache)
            ELSE IF gg.outcome = Error
            THEN Result(Error, gg.status, FromRequestFailed(gg.status, gg.error),
                        NoPayload, NoProof, ran, steps, r, verifier, ops, gg.cache)
            ELSE Result(Error, InternalServerError, FromRequestForwarded,
                        NoPayload, NoProof, ran, steps, r, verifier, ops, gg.cache)
       ELSE Result(Error, Forbidden,
                   CsrfProtection(FormError("CsrfTokenVerificationError", "none")),
                   NoPayload, NoProof, NoGuard, <<"extract", "parse", "verify">>, r,
                   verifier, ops, cache)

\* impl FromData for CsrfProtectedFormWithGuard<V, F, G>
CsrfProtectedFormWithGuard_from_data(v, pin, gs, jar, ops, cache) ==
    LET g == guard_V(v, jar, ops) IN
    IF g.outcome = Error
    THEN Result(Error, g.status, CsrfProtection(FormError("NoVerifierFound", "none")),
                NoPayload, NoProof, NoGuard, <<"extract">>, NotRun, NoVerifier, g.ops, cache)
    ELSE IF g.outcome = Forward
    THEN Result(Forward, g.status, NoError, NoPayload, NoProof,
                NoGuard, <<"extract">>, NotRun, NoVerifier, g.ops, cache)
    ELSE IF pin.outcome = Error
    THEN Result(Error, on_parse_error(pin).status, CsrfProtection(on_parse_error(pin).error),
                NoPayload, NoProof, NoGuard, <<"extract", "parse">>, NotRun, g.verifier,
                g.ops, cache)
    ELSE IF pin.outcome = Forward
    THEN Result(Forward, pin.status, NoError, NoPayload, NoProof,
                NoGuard, <<"extract", "parse">>, NotRun, g.verifier, g.ops, cache)
    ELSE CsrfProtectedFormWithGuard_verified(g.verifier, pin.payload, gs, g.ops, cache)

\* impl FromRequest for CheckCsrfProtectionHeader<V>; header is the value of
\* X-CSRF-Token, NoToken when the request has none.
CheckCsrfProtectionHeader_from_request_lenient(v, header, jar, ops, cache) ==
    LET g == guard_V(v, jar, ops) IN
    IF g.outcome = Error
    THEN Result(Error, g.status, FormError("NoVerifierFound", "none"), NoPayload, NoProof,
                NoGuard, <<"extract">>, NotRun, NoVerifier, g.ops, cache)
    ELSE IF g.outcome = Forward
    THEN Result(Forward, g.status, NoError, NoPayload, NoProof,
                NoGuard, <<"extract">>, NotRun, NoVerifier, g.ops, cache)
    ELSE IF header # NoToken
    THEN LET r == verify(g.verifier, CsrfTokenSourcedFromHeader(header)) IN
         IF r.ok
         THEN Result(Success, NoStatus, NoError, NoPayload, NoProof, NoGuard,
                     <<"extract", "header", "verify", "publish">>, r, g.verifier, g.ops,
                     set_proof_in_cache(cache, g.verifier.pkind, r.proof))
         ELSE Result(Error, Forbidden, FormError("CsrfTokenVerificationError", "none"),
                     NoPayload, NoProof, NoGuard, <<"extract", "header", "verify">>, r,
                     g.verifier, g.ops, cache)
    ELSE Result(Success, NoStatus, NoError, NoPayload, NoProof,
                NoGuard, <<"extract", "header">>, NotRun, g.verifier, g.ops, cache)
CheckCsrfProtectionHeader_from_request_unpublished(v, header, jar, ops, cache) ==
    LET g == guard_V(v, jar, ops) IN
    IF g.outcome = Error
    THEN Result(Error, g.status, FormError("NoVerifierFound", "none"), NoPayload, NoProof,
                NoGuard, <<"extract">>, NotRun, NoVerifier, g.ops, cache)
    ELSE IF g.outcome = Forward
    THEN Result(Forward, g.status, NoError, NoPayload, NoProof,
                NoGuard, <<"extract">>, NotRun, NoVerifier, g.ops, cache)
    ELSE IF header # NoToken
    THEN LET r == verify(g.verifier, CsrfTokenSourcedFromHeader(header)) IN
         IF r.ok
         THEN Result(Success, NoStatus, NoError, NoPayload, NoProof, NoGuard,
                     <<"extract", "header", "verify", "publish">>, r, g.verifier, g.ops,
                     cache)
         ELSE Result(Error, Forbidden, FormError("CsrfTokenVerificationError", "none"),
                     NoPayload, NoProof, NoGuard, <<"extract", "header", "verify">>, r,
                     g.verifier, g.ops, cache)
    ELSE Result(Error, Forbidden, FormError("NoHeaderPresent", "none"), NoPayload, NoProof,
                NoGuard, <<"extract", "header">>, NotRun, g.verifier, g.ops, cache)
CheckCsrfProtectionHeader_from_request(v, header, jar, ops, cache) ==
    LET g == guard_V(v, jar, ops) IN
    IF g.outcome = Error
    THEN Result(Error, g.status, FormError("NoVerifierFound", "none"), NoPayload, NoProof,
                NoGuard, <<"extract">>, NotRun, NoVerifier, g.ops, cache)
    ELSE IF g.outcome = Forward
    THEN Result(Forward, g.status, NoError, NoPayload, NoProof,
                NoGuard, <<"extract">>, NotRun, NoVerifier, g.ops, cache)
    ELSE IF header # NoToken
    THEN LET r == verify(g.verifier, CsrfTokenSourcedFromHeader(header)) IN
         IF r.ok
         THEN Result(Success, NoStatus, NoError, NoPayload, NoProof, NoGuard,
                     <<"extract", "header", "verify", "publish">>, r, g.verifier, g.ops,
                     set_proof_in_cache(cache, g.verifier.pkind, r.proof))
         ELSE Result(Error, Forbidden, FormError("CsrfTokenVerificationError", "none"),
                     NoPayload, NoProof, NoGuard, <<"extract", "header", "verify">>, r,
                     g.verifier, g.ops, cache)
    ELSE Result(Error, Forbidden, FormError("NoHeaderPresent", "none"), NoPayload, NoProof,
                NoGuard, <<"extract", "header">>, NotRun, g.verifier, g.ops, cache)

\* impl FromRequest for SetDoubleSubmitCookieCsrfTokenImpl: rnd is what the
\* random source gives, NoToken when it fails.
SetDoubleSubmitCookieCsrfTokenImpl_from_request(rnd) ==
    IF rnd = NoToken
    THEN [outcome |-> Forward, csrf_token |-> NoToken]
    ELSE [outcome |-> Success, csrf_token |-> rnd]

\* SetDoubleSubmitCookieCsrfTokenImpl::set: queues the private cookie and
\* returns the token.
SetDoubleSubmitCookieCsrfTokenImpl_set_unwritten(csrf_tok, ops) ==
    [ops |-> ops, returned |-> csrf_tok]
SetDoubleSubmitCookieCsrfTokenImpl_set(csrf_tok, ops) ==
    [ops |-> cookies_add_private(ops, csrf_tok), returned |-> csrf_tok]

\* ------------------------------------------------------- the cookie written
\* The const parameters of SetDoubleSubmitCookieCsrfTokenImpl: SS is an i8,
\* EXPIRY an i64 of which the exported values and two others are tried.
I8 == -128..127
DOUBLE_SUBMIT_CSRF_TOKEN_COOKIE_NAME == "__Host-csrf-token"
DOUBLE_SUBMIT_CSRF_TOKEN_EXPIRY_SECONDS == 600
DOUBLE_SUBMIT_CSRF_TOKEN_NONE_EXPIRY_SECONDS == 20
SAME_SITE_STRICT == 0
SAME_SITE_LAX == 1
SAME_SITE_NONE_DO_NOT_USE_UNLESS_YOU_ARE_SURE == 2
Expiries ==
    {DOUBLE_SUBMIT_CSRF_TOKEN_EXPIRY_SECONDS, DOUBLE_SUBMIT_CSRF_TOKEN_NONE_EXPIRY_SECONDS,
     0, 86400}

\* The three exported guard types.
SetDoubleSubmitCookieCsrfToken ==
    [SS |-> SAME_SITE_STRICT, EXPIRY |-> DOUBLE_SUBMIT_CSRF_TOKEN_EXPIRY_SECONDS]
SetLaxDoubleSubmitCookieCsrfToken ==
    [SS |-> SAME_SITE_LAX, EXPIRY |-> DOUBLE_SUBMIT_CSRF_TOKEN_EXPIRY_SECONDS]
SetNoneDoubleSubmitCookieCsrfToken_DO_NOT_USE_UNLESS_YOU_ARE_SURE ==
    [SS |-> SAME_SITE_NONE_DO_NOT_USE_UNLESS_YOU_ARE_SURE,
     EXPIRY |-> DOUBLE_SUBMIT_CSRF_TOKEN_NONE_EXPIRY_SECONDS]

\* set(): the match on SS
same_site_else_none(SS) ==
    IF SS = SAME_SITE_LAX THEN "Lax"
    ELSE IF SS = SAME_SITE_STRICT THEN "Strict"
    ELSE "None"
same_site(SS) ==
    IF SS = SAME_SITE_LAX THEN "Lax"
    ELSE IF SS = SAME_SITE_NONE_DO_NOT_USE_UNLESS_YOU_ARE_SURE THEN "None"
    ELSE "Strict"

\* set(): the cookie handed to add_private
Cookie_build(SS, EXPIRY, csrf_tok) ==
    [name |-> DOUBLE_SUBMIT_CSRF_TOKEN_COOKIE_NAME, value |-> csrf_tok,
     max_age |-> EXPIRY, same_site |-> same_site(SS), secure |-> TRUE]
NoBuiltCookie ==
    [name |-> "none", value |-> NoToken, max_age |-> 0, same_site |-> "none",
     secure |-> FALSE]
NoBuilt ==
    [op |-> "none", SS |-> 0, EXPIRY |-> 0, csrf_token |-> NoToken,
     cookie |-> NoBuiltCookie, returned |-> NoToken]

\* ------------------------------------------- the with_csrf_token attribute
\* An ItemStruct: its shape (named fields, tuple, unit), its generic
\* parameters in order, and its fields in order; a field has an ident (none in
\* a tuple struct) and a type.
MaxParams == 2
MaxFields == 2
MaxArgs == 2

NoIdent == "none"
String == [ty |-> "String", lifetime |-> NoIdent]
RefStr(lifetime) == [ty |-> "&str", lifetime |-> lifetime]
OtherType == [ty |-> "u32", lifetime |-> NoIdent]
GenericParam ==
    {[kind |-> "lifetime", ident |-> "a"], [kind |-> "lifetime", ident |-> "b"],
     [kind |-> "type", ident |-> "T"]}
FieldIdents == {"name", "csrf_token", "token"}
FieldTypes == {String, RefStr("a"), OtherType}
Field(ident, ty) == [ident |-> ident, ty |-> ty]

SeqsUpTo(S, n) == UNION {[1..k -> S] : k \in 0..n}
DistinctIdents(seq) ==
    \A i, j \in 1..Len(seq) : seq[i].ident = seq[j].ident => i = j
Generics == {g \in SeqsUpTo(GenericParam, MaxParams) : DistinctIdents(g)}
NamedFields ==
    {f \in SeqsUpTo({Field(i, t) : i \in FieldIdents, t \in FieldTypes}, MaxFields)
        : DistinctIdents(f)}
UnnamedFields == SeqsUpTo({Field(NoIdent, t) : t \in FieldTypes}, MaxFields)
ItemStruct ==
    {[shape |-> "Named", generics |-> g, fields |-> f] : g \in Generics, f \in NamedFields}
    \cup {[shape |-> "Unnamed", generics |-> g, fields |-> f]
            : g \in Generics, f \in UnnamedFields \ {<<>>}}
    \cup {[shape |-> "Unit", generics |-> g, fields |-> <<>>] : g \in Generics}
NoItem == [shape |-> "none", generics |-> <<>>, fields |-> <<>>]
MacroArgs == SeqsUpTo({"csrf_token", "token"}, MaxArgs)

\* impl Parse for MaybeName: no literal, one literal, or an error
NoName == "none"
MaybeName_parse(args) ==
    IF Len(args) = 0 THEN [ok |-> TRUE, name |-> NoName]
    ELSE IF Len(args) = 1 THEN [ok |-> TRUE, name |-> args[1]]
    ELSE [ok |-> FALSE, name |-> NoName]

\* get_singular_lifetime: the lifetime of a struct whose only generic
\* parameter is a lifetime
get_singular_lifetime(item) ==
    IF Len(item.generics) # 1 THEN NoIdent
    ELSE IF item.generics[1].kind = "lifetime" THEN item.generics[1].ident
    ELSE NoIdent

\* the name of the token field: the argument, or csrf_token
field_name_default(name) == "csrf_token"
field_name(name) == IF name = NoName THEN "csrf_token" ELSE name

\* with_csrf_token: the struct as emitted and the field the generated
\* csrf_token() reads; an argument list that does not parse emits an error
\* in place of both.
with_csrf_token(item, args) ==
    LET maybe_names == MaybeName_parse(args) IN
    IF ~maybe_names.ok
    THEN [error |-> TRUE, item_struct |-> NoItem, ident |-> NoIdent]
    ELSE LET ident == field_name(maybe_names.name)
             lifetime == get_singular_lifetime(item)
             existing == \E i \in 1..Len(item.fields) : item.fields[i].ident = ident
             field == IF lifetime # NoIdent THEN Field(ident, RefStr(lifetime))
                      ELSE Field(ident, String)
         IN [error |-> FALSE,
             item_struct |-> [item EXCEPT !.fields =
                                IF item.shape = "Named" /\ ~existing
                                THEN Append(@, field) ELSE @],
             ident |-> ident]
NoExpansion ==
    [op |-> "none", item |-> NoItem, args |-> <<>>,
     out |-> [error |-> FALSE, item_struct |-> NoItem, ident |-> NoIdent]]

\* -------------------------------------------------------------------- state
VARIABLES
    clientCookie,   \* the __Host-csrf-token cookie the client holds, or NoCookie
    burned,         \* a request that read the cookie was answered since the last issue
    pc,             \* per request: "idle" or "running"
    jar,            \* per request: the cookie the request came with
    ops,            \* per request: the cookie operations queued for the response
    cache,          \* per request: the request-local cache, one slot per proof kind
    setGuard,       \* per request: the token of its SetDoubleSubmitCookieCsrfToken guard
    passed,         \* per request: the verify of a double-submit verifier gave Ok
    proved,         \* per request: a wrapper's verify gave a proof of kind CsrfCheckProof
    consumed,       \* per request: a double-submit verifier was built from its cookie
    afterBurn,      \* per request: it was sent after a burn and before a new issue
    modified,       \* per request: it was sent with another cookie than the client held
    handedTok,      \* per request: the token its last set() returned to the handler
    issuedTok,      \* the token handed out with the cookie the client holds
    last,           \* the operation that just ran, its inputs and what it returned
    expansion,      \* a use of #[with_csrf_token]: the item, the arguments, the output
    heldVerifier,   \* per request: the DoubleSubmitCookieCsrfToken its handler holds
    built           \* a use of set() of one Set guard type: its parameters, its cookie

vars == <<clientCookie, burned, pc, jar, ops, cache, setGuard, passed, proved, consumed,
          afterBurn, modified, handedTok, issuedTok, last, expansion, heldVerifier, built>>

NoVSel ==
    [kind |-> "none", gout |-> "none", gstatus |-> NoStatus, expected |-> NoToken,
     accepts |-> {}, err |-> "none", pkind |-> "CsrfCheckProof", proof |-> NoProof]
NoPIn == [outcome |-> "none", status |-> NoStatus, err |-> "none", payload |-> NoPayload]
NoResult ==
    Result("none", NoStatus, NoError, NoPayload, NoProof, NoGuard, <<>>, NotRun,
           NoVerifier, <<>>, EmptyCache)

\* The record of an operation: kept until the host has taken the outcome.
Ran(r, op, v, pin, header, gs, res) ==
    [req |-> r, op |-> op, v |-> v, pin |-> pin, header |-> header, gs |-> gs,
     pre |-> cache[r], res |-> res]
Nothing ==
    [req |-> 0, op |-> "none", v |-> NoVSel, pin |-> NoPIn, header |-> NoToken,
     gs |-> NoGSel, pre |-> EmptyCache, res |-> NoResult]
Quiet == last.op = "none"

Init ==
    /\ clientCookie = NoCookie
    /\ burned = FALSE
    /\ pc = [r \in Reqs |-> "idle"]
    /\ jar = [r \in Reqs |-> NoCookie]
    /\ ops = [r \in Reqs |-> <<>>]
    /\ cache = [r \in Reqs |-> EmptyCache]
    /\ setGuard = [r \in Reqs |-> NoToken]
    /\ passed = [r \in Reqs |-> FALSE]
    /\ proved = [r \in Reqs |-> FALSE]
    /\ consumed = [r \in Reqs |-> FALSE]
    /\ afterBurn = [r \in Reqs |-> FALSE]
    /\ modified = [r \in Reqs |-> FALSE]
    /\ handedTok = [r \in Reqs |-> NoToken]
    /\ issuedTok = NoToken
    /\ last = Nothing
    /\ expansion = NoExpansion
    /\ heldVerifier = [r \in Reqs |-> NoVerifier]
    /\ built = NoBuilt

\* The host has taken the outcome of the operation that just ran.
Handed ==
    /\ ~Quiet
    /\ last' = Nothing
    /\ UNCHANGED <<clientCookie, burned, pc, jar, ops, cache, setGuard, passed, proved,
                   consumed, afterBurn, modified, handedTok, issuedTok, expansion,
                   heldVerifier, built>>

\* The client sends a request: it carries the cookie the client holds, or a
\* cookie put on this request alone (another private value, or a value that
\* does not decrypt), and starts with no pending cookie operation and an empty
\* cache.
Attached == {Encrypt(t) : t \in Tokens} \cup {<<"plain", 1>>}
Start(r, A) ==
    /\ Quiet
    /\ pc[r] = "idle"
    /\ \E c \in {clientCookie} \cup A :
          /\ jar' = [jar EXCEPT ![r] = c]
          /\ modified' = [modified EXCEPT ![r] = (c # clientCookie)]
          /\ afterBurn' = [afterBurn EXCEPT ![r] = burned /\ c = clientCookie]
    /\ pc' = [pc EXCEPT ![r] = "running"]
    /\ ops' = [ops EXCEPT ![r] = <<>>]
    /\ cache' = [cache EXCEPT ![r] = EmptyCache]
    /\ UNCHANGED <<clientCookie, burned, setGuard, passed, proved, consumed, handedTok,
                   issuedTok, last, expansion, heldVerifier, built>>

\* What a wrapper run leaves in the request.
Apply_shared(r, res) ==
    /\ Len(res.ops) <= MaxOps
    /\ ops' = [ops EXCEPT ![r] = res.ops]
    /\ cache' = [q \in Reqs |-> res.cache]
    /\ passed' = [passed EXCEPT ![r] =
                    @ \/ (res.vres.ok /\ res.verifier.kind = "DoubleSubmit")]
    /\ proved' = [proved EXCEPT ![r] =
                    @ \/ (res.vres.ok /\ res.verifier.pkind = "CsrfCheckProof")]
    /\ consumed' = [consumed EXCEPT ![r] = @ \/ res.verifier.kind = "DoubleSubmit"]
    /\ UNCHANGED <<clientCookie, burned, pc, jar, setGuard, afterBurn, modified, handedTok,
                   issuedTok, expansion, built>>
Apply(r, res) ==
    /\ Len(res.ops) <= MaxOps
    /\ ops' = [ops EXCEPT ![r] = res.ops]
    /\ cache' = [cache EXCEPT ![r] = res.cache]
    /\ passed' = [passed EXCEPT ![r] =
                    @ \/ (res.vres.ok /\ res.verifier.kind = "DoubleSubmit")]
    /\ proved' = [proved EXCEPT ![r] =
                    @ \/ (res.vres.ok /\ res.verifier.pkind = "CsrfCheckProof")]
    /\ consumed' = [consumed EXCEPT ![r] = @ \/ res.verifier.kind = "DoubleSubmit"]
    /\ UNCHANGED <<clientCookie, burned, pc, jar, setGuard, afterBurn, modified, handedTok,
                   issuedTok, expansion, built>>

\* The inputs a wrapper run reads: the payload is parsed only with a verifier
\* at hand, and the guard G runs only after verify gave Ok.
PInFor(g) == IF g.outcome = Success THEN PIn ELSE {NoPIn}
HeaderFor(g) == IF g.outcome = Success THEN Tokens \cup {NoToken} ELSE {NoToken}
GSelFor(g, pin) ==
    IF g.outcome = Success /\ pin.outcome = Success /\ verify(g.verifier, pin.payload).ok
    THEN GSel ELSE {NoGSel}

\* A route's data guard is CsrfProtectedForm<V, F>, V among VS.
ProtectedForm(r, VS) ==
    /\ Quiet
    /\ pc[r] = "running"
    /\ UNCHANGED heldVerifier
    /\ \E v \in VS :
         \E pin \in PInFor(guard_V(v, jar[r], ops[r])) :
          LET res == CsrfProtectedForm_from_data(v, pin, jar[r], ops[r], cache[r]) IN
          /\ Apply(r, res)
          /\ last' = Ran(r, "Form", v, pin, NoToken, NoGSel, res)

\* A route's data guard is CsrfProtectedFormWithGuard<V, F, G>, V among VS.
ProtectedFormWithGuard(r, VS) ==
    /\ Quiet
    /\ pc[r] = "running"
    /\ UNCHANGED heldVerifier
    /\ \E v \in VS :
         \E pin \in PInFor(guard_V(v, jar[r], ops[r])) :
          \E gs \in GSelFor(guard_V(v, jar[r], ops[r]), pin) :
          LET res == CsrfProtectedFormWithGuard_from_data(v, pin, gs, jar[r], ops[r],
                                                          cache[r]) IN
          /\ Apply(r, res)
          /\ last' = Ran(r, "FormWithGuard", v, pin, NoToken, gs, res)

\* A route's request guard is CheckCsrfProtectionHeader<V>, V among VS.
HeaderCheck(r, VS) ==
    /\ Quiet
    /\ pc[r] = "running"
    /\ UNCHANGED heldVerifier
    /\ \E v \in VS :
         \E header \in HeaderFor(guard_V(v, jar[r], ops[r])) :
          LET res == CheckCsrfProtectionHeader_from_request(v, header, jar[r], ops[r],
                                                            cache[r]) IN
          /\ Apply(r, res)
          /\ last' = Ran(r, "Header", v, NoPIn, header, NoGSel, res)

\* A route's request guard is DoubleSubmitCookieCsrfToken itself: the handler
\* is given the verifier.
DoubleSubmitGuard(r) ==
    /\ Quiet
    /\ pc[r] = "running"
    /\ heldVerifier' = [heldVerifier EXCEPT ![r] =
            LET g == DoubleSubmit_from_request(jar[r], ops[r]) IN
            IF g.outcome = Success THEN g.verifier ELSE @]
    /\ LET g == DoubleSubmit_from_request(jar[r], ops[r])
           res == Result(g.outcome, g.status, NoError, NoPayload, NoProof, NoGuard,
                         <<"extract">>, NotRun, g.verifier, g.ops, cache[r])
       IN /\ Apply(r, res)
          /\ last' = Ran(r, "Verifier", VSelDoubleSubmit, NoPIn, NoToken, NoGSel, res)

\* The handler calls verify on the verifier it was given, with a token it took
\* from the request itself. DoubleSubmitCookieCsrfToken::verify has the
\* verifier and the token, not the request.
VerifyHeld_rereading(r) ==
    /\ Quiet
    /\ pc[r] = "running"
    /\ heldVerifier[r] # NoVerifier
    /\ \E t \in Tokens :
          LET pending == Outgoing(jar[r], ops[r], jar[r])
              vr == verify(DoubleSubmitCookieCsrfToken(Decrypt(pending)),
                           ManuallySourcedCsrfToken(t))
              res == Result(IF vr.ok THEN Success ELSE Error, NoStatus, NoError,
                            NoPayload, vr.proof, NoGuard, <<"verify">>, vr,
                            heldVerifier[r], ops[r], cache[r])
          IN /\ passed' = [passed EXCEPT ![r] = @ \/ vr.ok]
             /\ last' = Ran(r, "Verify", VSelDoubleSubmit, NoPIn, t, NoGSel, res)
    /\ UNCHANGED <<clientCookie, burned, pc, jar, ops, cache, setGuard, proved, consumed,
                   afterBurn, modified, handedTok, issuedTok, expansion, heldVerifier, built>>
VerifyHeld(r) ==
    /\ Quiet
    /\ pc[r] = "running"
    /\ heldVerifier[r] # NoVerifier
    /\ \E t \in Tokens :
          LET vr == verify(heldVerifier[r], ManuallySourcedCsrfToken(t))
              res == Result(IF vr.ok THEN Success ELSE Error, NoStatus, NoError,
                            NoPayload, vr.proof, NoGuard, <<"verify">>, vr,
                            heldVerifier[r], ops[r], cache[r])
          IN /\ passed' = [passed EXCEPT ![r] = @ \/ vr.ok]
             /\ last' = Ran(r, "Verify", VSelDoubleSubmit, NoPIn, t, NoGSel, res)
    /\ UNCHANGED <<clientCookie, burned, pc, jar, ops, cache, setGuard, proved, consumed,
                   afterBurn, modified, handedTok, issuedTok, expansion, heldVerifier, built>>

\* A route's request guard is CsrfCheckProof.
ProofCheck(r) ==
    /\ Quiet
    /\ pc[r] = "running"
    /\ UNCHANGED heldVerifier
    /\ LET c == CsrfCheckProof_from_request(cache[r])
           res == Result(c.outcome, c.status, NoError, NoPayload, c.proof, NoGuard,
                         <<"check">>, NotRun, NoVerifier, ops[r], c.cache)
       IN /\ Apply(r, res)
          /\ last' = Ran(r, "ProofCheck", NoVSel, NoPIn, NoToken, NoGSel, res)

\* A route's request guard is SetDoubleSubmitCookieCsrfToken.
IssueGuard(r) ==
    /\ Quiet
    /\ pc[r] = "running"
    /\ setGuard[r] = NoToken
    /\ \E rnd \in Tokens \cup {NoToken} :
          LET g == SetDoubleSubmitCookieCsrfTokenImpl_from_request(rnd)
              res == Result(g.outcome, NoStatus, NoError, NoPayload, NoProof, NoGuard,
                            <<"issue">>, NotRun, NoVerifier, ops[r], cache[r])
          IN /\ setGuard' = [setGuard EXCEPT ![r] = g.csrf_token]
             /\ last' = Ran(r, "IssueGuard", NoVSel, NoPIn, rnd, NoGSel, res)
    /\ UNCHANGED <<clientCookie, burned, pc, jar, ops, cache, passed, proved, consumed,
                   afterBurn, modified, handedTok, issuedTok, expansion, heldVerifier, built>>

\* The handler calls set() on its guard (directly or by serializing it).
SetCall(r) ==
    /\ Quiet
    /\ pc[r] = "running"
    /\ setGuard[r] # NoToken
    /\ Len(ops[r]) < MaxOps
    /\ LET s == SetDoubleSubmitCookieCsrfTokenImpl_set(setGuard[r], ops[r])
           res == Result(Success, NoStatus, NoError, NoPayload, NoProof, NoGuard,
                         <<"set">>, NotRun, NoVerifier, s.ops, cache[r])
       IN /\ ops' = [ops EXCEPT ![r] = s.ops]
          /\ handedTok' = [handedTok EXCEPT ![r] = s.returned]
          /\ last' = Ran(r, "Set", NoVSel, NoPIn, s.returned, NoGSel, res)
    /\ UNCHANGED <<clientCookie, burned, pc, jar, cache, setGuard, passed, proved,
                   consumed, afterBurn, modified, issuedTok, expansion, heldVerifier, built>>

\* The host answers the request: the client applies the queued cookie
\* operations, and the request with its jar and cache is gone.
Respond(r) ==
    /\ Quiet
    /\ pc[r] = "running"
    /\ clientCookie' = Outgoing(jar[r], ops[r], clientCookie)
    /\ burned' = IF ops[r] # <<>> /\ ops[r][Len(ops[r])][1] = "add" THEN FALSE
                 ELSE IF consumed[r] THEN TRUE
                 ELSE burned
    /\ pc' = [pc EXCEPT ![r] = "idle"]
    /\ jar' = [jar EXCEPT ![r] = NoCookie]
    /\ ops' = [ops EXCEPT ![r] = <<>>]
    /\ cache' = [cache EXCEPT ![r] = EmptyCache]
    /\ setGuard' = [setGuard EXCEPT ![r] = NoToken]
    /\ passed' = [passed EXCEPT ![r] = FALSE]
    /\ proved' = [proved EXCEPT ![r] = FALSE]
    /\ consumed' = [consumed EXCEPT ![r] = FALSE]
    /\ afterBurn' = [afterBurn EXCEPT ![r] = FALSE]
    /\ modified' = [modified EXCEPT ![r] = FALSE]
    /\ handedTok' = [handedTok EXCEPT ![r] = NoToken]
    /\ issuedTok' = IF ops[r] # <<>> /\ ops[r][Len(ops[r])][1] = "add" THEN handedTok[r]
                    ELSE IF Outgoing(jar[r], ops[r], clientCookie) = NoCookie THEN NoToken
                    ELSE issuedTok
    /\ heldVerifier' = [heldVerifier EXCEPT ![r] = NoVerifier]
    /\ UNCHANGED <<last, expansion, built>>

\* One client that waits for each answer: one request in flight, any verifier.
Next ==
    \/ Handed
    \/ Start(1, Attached)
    \/ ProtectedForm(1, VSel)
    \/ ProtectedFormWithGuard(1, VSel)
    \/ HeaderCheck(1, VSel)
    \/ DoubleSubmitGuard(1)
    \/ VerifyHeld(1)
    \/ ProofCheck(1)
    \/ IssueGuard(1)
    \/ SetCall(1)
    \/ Respond(1)

Spec == Init /\ [][Next]_vars

\* Requests of one client in flight together, on the double-submit routes.
NextConc ==
    \/ Handed
    \/ \E r \in Reqs : Start(r, {})
    \/ \E r \in Reqs : ProtectedForm(r, {VSelDoubleSubmit})
    \/ \E r \in Reqs : HeaderCheck(r, {VSelDoubleSubmit})
    \/ \E r \in Reqs : DoubleSubmitGuard(r)
    \/ \E r \in Reqs : VerifyHeld(r)
    \/ \E r \in Reqs : ProofCheck(r)
    \/ \E r \in Reqs : IssueGuard(r)
    \/ \E r \in Reqs : SetCall(r)
    \/ \E r \in Reqs : Respond(r)

SpecConc == Init /\ [][NextConc]_vars

\* A struct definition under #[with_csrf_token(..)] is expanded at compile
\* time; no request is involved.
InitDerive ==
    /\ clientCookie = NoCookie
    /\ burned = FALSE
    /\ pc = [r \in Reqs |-> "idle"]
    /\ jar = [r \in Reqs |-> NoCookie]
    /\ ops = [r \in Reqs |-> <<>>]
    /\ cache = [r \in Reqs |-> EmptyCache]
    /\ setGuard = [r \in Reqs |-> NoToken]
    /\ passed = [r \in Reqs |-> FALSE]
    /\ proved = [r \in Reqs |-> FALSE]
    /\ consumed = [r \in Reqs |-> FALSE]
    /\ afterBurn = [r \in Reqs |-> FALSE]
    /\ modified = [r \in Reqs |-> FALSE]
    /\ handedTok = [r \in Reqs |-> NoToken]
    /\ issuedTok = NoToken
    /\ last = Nothing
    /\ heldVerifier = [r \in Reqs |-> NoVerifier]
    /\ built = NoBuilt
    /\ expansion \in {[NoExpansion EXCEPT !.op = "item", !.item = it, !.args = a]
                        : it \in ItemStruct, a \in MacroArgs}

Expand ==
    /\ expansion.op = "item"
    /\ expansion' = [expansion EXCEPT !.op = "expanded",
                                      !.out = with_csrf_token(expansion.item, expansion.args)]
    /\ UNCHANGED <<clientCookie, burned, pc, jar, ops, cache, setGuard, passed, proved,
                   consumed, afterBurn, modified, handedTok, issuedTok, last,
                   heldVerifier, built>>

NextDerive == Expand

SpecDerive == InitDerive /\ [][NextDerive]_vars

\* set() of a guard of type SetDoubleSubmitCookieCsrfTokenImpl<SS, EXPIRY>
\* holding a token: the cookie it builds and the value it returns.
InitPolicy ==
    /\ clientCookie = NoCookie
    /\ burned = FALSE
    /\ pc = [r \in Reqs |-> "idle"]
    /\ jar = [r \in Reqs |-> NoCookie]
    /\ ops = [r \in Reqs |-> <<>>]
    /\ cache = [r \in Reqs |-> EmptyCache]
    /\ setGuard = [r \in Reqs |-> NoToken]
    /\ passed = [r \in Reqs |-> FALSE]
    /\ proved = [r \in Reqs |-> FALSE]
    /\ consumed = [r \in Reqs |-> FALSE]
    /\ afterBurn = [r \in Reqs |-> FALSE]
    /\ modified = [r \in Reqs |-> FALSE]
    /\ handedTok = [r \in Reqs |-> NoToken]
    /\ issuedTok = NoToken
    /\ last = Nothing
    /\ expansion = NoExpansion
    /\ heldVerifier = [r \in Reqs |-> NoVerifier]
    /\ built \in {[NoBuilt EXCEPT !.op = "guard", !.SS = ss, !.EXPIRY = e, !.csrf_token = t]
                    : ss \in I8, e \in Expiries, t \in Tokens}

BuildCookie ==
    /\ built.op = "guard"
    /\ built' = [built EXCEPT
                    !.op = "set",
                    !.cookie = Cookie_build(built.SS, built.EXPIRY, built.csrf_token),
                    !.returned = built.csrf_token]
    /\ UNCHANGED <<clientCookie, burned, pc, jar, ops, cache, setGuard, passed, proved,
                   consumed, afterBurn, modified, handedTok, issuedTok, last, expansion,
                   heldVerifier>>

NextPolicy == BuildCookie

SpecPolicy == InitPolicy /\ [][NextPolicy]_vars

TypeOK ==
    /\ pc \in [Reqs -> {"idle", "running"}]
    /\ \A r \in Reqs : Len(ops[r]) <= MaxOps

\* -------------------------------------------------------------------- claims
\* What a run's inputs say, read without the wrapper: whether the request
\* guard of V gives a verifier in request r, which one, and what a wrapper
\* error is for the plain and for the guarded form.
FormOps == {"Form", "FormWithGuard"}
Available(v, r) ==
    IF v.kind = "DoubleSubmit" THEN Decrypt(jar[r]) # NoToken ELSE v.gout = Success
TheVerifier(v, r) ==
    IF v.kind = "DoubleSubmit" THEN DoubleSubmitCookieCsrfToken(Decrypt(jar[r]))
    ELSE [kind |-> v.kind, expected |-> v.expected, accepts |-> v.accepts, err |-> v.err,
          pkind |-> v.pkind, proof |-> v.proof]
Verdict(v, r, src) == verify(TheVerifier(v, r), src)
FormErrorIs(variant, value) ==
    IF last.op = "Form"
    THEN last.res.error = FormError(variant, value)
    ELSE last.res.error = CsrfProtection(FormError(variant, value))

\* C1: CsrfProtectedForm::from_data returns Success, the one outcome that
\* hands out the parsed payload, only if in that run the verifier was
\* obtained, the payload parsed and verify on that payload gave Ok; in every
\* other case the outcome is Error or Forward and no payload is handed out.
C1_SuccessOnlyIfVerified ==
    last.op = "Form" =>
        LET all == /\ Available(last.v, last.req)
                   /\ last.pin.outcome = Success
                   /\ Verdict(last.v, last.req, last.pin.payload).ok
        IN /\ last.res.outcome = Success => all /\ last.res.form = last.pin.payload
           /\ ~all => last.res.outcome \in {Error, Forward} /\ last.res.form = NoPayload
C1_Witness ==
    /\ last.op = "Form"
    /\ last.res.outcome = Success
    /\ last.res.form = last.pin.payload
    /\ last.res.vres.ok

\* C2: a CsrfCheckProof check succeeds only if a verification of the same
\* request gave a CsrfCheckProof before it, and it forwards when the slot of
\* the request's cache is empty, as in a request with no verification so far.
C2_CheckNeverDefaultsToSuccess ==
    /\ last.op = "ProofCheck" =>
          /\ last.res.outcome = Success => proved[last.req]
          /\ last.pre["CsrfCheckProof"] \in {"Unset", "None"} =>
                last.res.outcome = Forward /\ last.res.proof = NoProof
    /\ (last.op = "FormWithGuard" /\ last.gs.kind = "CsrfCheckProof"
          /\ last.res.guard.outcome = Success) => proved[last.req]
C2_Witness ==
    /\ last.op = "ProofCheck"
    /\ last.res.outcome = Success
    /\ proved[last.req]

\* C3: once a wrapper got a CsrfCheckProof from verify in a request, every
\* CsrfCheckProof check run later in that request succeeds, whatever guards
\* and checks ran before.
C3_CheckAfterVerificationSucceeds ==
    (last.op = "ProofCheck" /\ proved[last.req]) => last.res.outcome = Success

\* C4: a request that carries cookie c and token field t passes the double
\* submit verification exactly when t = c, where c is the value the issue step
\* returned unless the cookie was changed; when they differ verify gives
\* CsrfTokenMismatch and the form wrapper answers 403.
C4_DoubleSubmitRoundTrip ==
    (/\ last.op = "Form"
     /\ last.v.kind = "DoubleSubmit"
     /\ Decrypt(jar[last.req]) # NoToken
     /\ last.pin.outcome = Success) =>
        LET c == Decrypt(jar[last.req])
            t == csrf_token(last.pin.payload)
        IN /\ ~modified[last.req] => c = issuedTok
           /\ last.res.outcome = Success <=> t = c
           /\ t # c => /\ last.res.vres = Err("CsrfTokenMismatch")
                       /\ last.res.outcome = Error
                       /\ last.res.status = Forbidden
C4_Witness ==
    /\ last.op = "Form"
    /\ last.v.kind = "DoubleSubmit"
    /\ ~modified[last.req]
    /\ issuedTok # NoToken
    /\ csrf_token(last.pin.payload) = issuedTok
    /\ last.res.outcome = Success

C6_AtMostOneUseOfACookie ==
    \A r1, r2 \in Reqs :
        (/\ r1 # r2
         /\ pc[r1] = "running" /\ pc[r2] = "running"
         /\ jar[r1] # NoCookie /\ jar[r1] = jar[r2]) => ~(passed[r1] /\ passed[r2])

\* C7: in every request in which a double-submit verifier was built from a
\* present cookie, the removal of the cookie is queued for the response and
\* stays the last word on the cookie whatever the request does next, short of
\* a new set().
C7_ConsumedCookieIsRemoved ==
    \A r \in Reqs :
        consumed[r] =>
            /\ \E i \in 1..Len(ops[r]) : ops[r][i] = RemoveOp
            /\ ops[r][Len(ops[r])] = RemoveOp =>
                  Outgoing(jar[r], ops[r], jar[r]) = NoCookie
            /\ handedTok[r] = NoToken => ops[r][Len(ops[r])] = RemoveOp
C7_Witness ==
    /\ last.op = "FormWithGuard"
    /\ last.v.kind = "DoubleSubmit"
    /\ consumed[last.req]
    /\ last.res.guard.ran
    /\ last.res.outcome = Error
    /\ Outgoing(jar[last.req], ops[last.req], jar[last.req]) = NoCookie

\* C8: with the verifier at hand and the payload parsed, an error from verify
\* (of any kind, Unknown included) makes both form wrappers fail with 403 and
\* CsrfTokenVerificationError: no payload is handed out, no proof is
\* published and the guard G is not run.
C8_VerificationFailureIs403 ==
    (/\ last.op \in FormOps
     /\ Available(last.v, last.req)
     /\ last.pin.outcome = Success
     /\ ~Verdict(last.v, last.req, last.pin.payload).ok) =>
        /\ last.res.outcome = Error
        /\ last.res.status = Forbidden
        /\ FormErrorIs("CsrfTokenVerificationError", "none")
        /\ last.res.form = NoPayload
        /\ last.res.proof = NoProof
        /\ cache[last.req] = last.pre
        /\ ~last.res.guard.ran
C8_Witness ==
    /\ last.op = "FormWithGuard"
    /\ last.res.vres = Err("Unknown")
    /\ last.res.status = Forbidden

\* C9: when the verifier cannot be obtained (its guard gives an error, or
\* forwards as the double-submit verifier does without a cookie) the form
\* wrappers answer Error(NoVerifierFound) with the guard's status, or Forward:
\* the payload is not parsed, verify is not called and no proof is published.
C9_NoVerifierNeverSkipsTheCheck ==
    (last.op \in FormOps /\ ~Available(last.v, last.req)) =>
        /\ \/ last.res.outcome = Forward
           \/ /\ last.res.outcome = Error
              /\ FormErrorIs("NoVerifierFound", "none")
              /\ last.res.status = last.v.gstatus
        /\ last.v.kind = "DoubleSubmit" => last.res.outcome = Forward
        /\ last.v.kind # "DoubleSubmit" => last.res.outcome = last.v.gout
        /\ last.res.steps = <<"extract">>
        /\ last.res.vres = NotRun
        /\ last.res.form = NoPayload
        /\ cache[last.req] = last.pre
C9_Witness ==
    /\ last.op = "Form"
    /\ last.v.kind = "DoubleSubmit"
    /\ jar[last.req] = NoCookie
    /\ last.res.outcome = Forward

\* C10: with the verifier at hand, a payload that fails to parse makes the
\* form wrappers fail with FormParsing carrying the parser's error and the
\* parser's status; verify is not called and no proof is published.
C10_ParseFailureShortCircuits ==
    (/\ last.op \in FormOps
     /\ Available(last.v, last.req)
     /\ last.pin.outcome = Error) =>
        /\ last.res.outcome = Error
        /\ last.res.status = last.pin.status
        /\ FormErrorIs("FormParsing", last.pin.err)
        /\ last.res.vres = NotRun
        /\ last.res.steps = <<"extract", "parse">>
        /\ last.res.form = NoPayload
        /\ cache[last.req] = last.pre
C10_Witness ==
    /\ last.op = "Form"
    /\ last.pin.outcome = Error
    /\ last.pin.status = 400
    /\ last.res.error = FormError("FormParsing", "missing_field")

\* What the guard G of a guarded form gives when it runs after a verification
\* that published proof p, read from the inputs.
GuardOutcome(gs, v, pre, p) ==
    IF gs.kind = "CsrfCheckProof"
    THEN CsrfCheckProof_from_request(set_proof_in_cache(pre, v.pkind, p)).outcome
    ELSE gs.gout

\* C11: CsrfProtectedFormWithGuard::from_data returns Success, handing out the
\* payload, the proof and the guard's value, only if in that run verification
\* passed and the guard G succeeded; when G gives an error or forwards the run
\* fails and hands out neither payload nor proof nor guard value.
C11_GuardedSuccessNeedsBoth ==
    last.op = "FormWithGuard" =>
        LET verified == /\ Available(last.v, last.req)
                        /\ last.pin.outcome = Success
                        /\ Verdict(last.v, last.req, last.pin.payload).ok
            gout == GuardOutcome(last.gs, last.v, last.pre, last.res.vres.proof)
        IN /\ last.res.outcome = Success =>
                /\ verified
                /\ gout = Success
                /\ last.res.form = last.pin.payload
                /\ last.res.guard.ran /\ last.res.guard.outcome = Success
           /\ (verified /\ gout # Success) =>
                /\ last.res.outcome = Error
                /\ last.res.form = NoPayload
                /\ last.res.proof = NoProof
                /\ last.res.guard.value = "none"
           /\ last.res.outcome # Success => last.res.form = NoPayload
C11_Witness ==
    /\ last.op = "FormWithGuard"
    /\ last.gs.kind = "Other"
    /\ last.res.outcome = Success
    /\ last.res.form = last.pin.payload
    /\ last.res.guard.value = "guard_value"

\* C12: in the guarded form, an error of G fails the run with FromRequestFailed
\* carrying G's status and error; a forward of G fails it with
\* FromRequestForwarded and status 500; the run forwards only when the verifier
\* guard or the parser forwarded, before verify is called.
C12_GuardErrorsAreEscalated ==
    last.op = "FormWithGuard" =>
        /\ (last.gs.kind = "Other" /\ last.gs.gout = Error) =>
              /\ last.res.outcome = Error
              /\ last.res.status = last.gs.gstatus
              /\ last.res.error = FromRequestFailed(last.gs.gstatus, last.gs.gerr)
        /\ (last.gs.kind # "none"
              /\ GuardOutcome(last.gs, last.v, last.pre, last.res.vres.proof) = Forward) =>
              /\ last.res.outcome = Error
              /\ last.res.status = InternalServerError
              /\ last.res.error = FromRequestForwarded
        /\ last.res.outcome = Forward =>
              /\ last.res.vres = NotRun
              /\ ~last.res.guard.ran
              /\ \/ ~Available(last.v, last.req)
                 \/ last.pin.outcome = Forward
C12_Witness ==
    /\ last.op = "FormWithGuard"
    /\ last.gs.kind = "Other"
    /\ last.gs.gout = Forward
    /\ last.res.vres.ok
    /\ last.res.status = InternalServerError
    /\ last.res.error = FromRequestForwarded

\* C13: with the verifier at hand, CheckCsrfProtectionHeader succeeds exactly
\* when the request has an X-CSRF-Token header that the verifier accepts, which
\* for a verifier with an expected token means a header equal to that token; a
\* header that fails verification answers 403 with CsrfTokenVerificationError,
\* no header answers 403 with NoHeaderPresent, and no payload is parsed.
C13_HeaderPath ==
    (last.op = "Header" /\ Available(last.v, last.req)) =>
        LET verifier == TheVerifier(last.v, last.req)
            ok == /\ last.header # NoToken
                  /\ verify(verifier, CsrfTokenSourcedFromHeader(last.header)).ok
        IN /\ last.res.outcome = Success <=> ok
           /\ last.v.kind \in {"DoubleSubmit", "KnownExpected"} =>
                (ok <=> (last.header # NoToken /\ last.header = verifier.expected))
           /\ (last.header # NoToken /\ ~ok) =>
                /\ last.res.outcome = Error
                /\ last.res.status = Forbidden
                /\ last.res.error = FormError("CsrfTokenVerificationError", "none")
           /\ last.header = NoToken =>
                /\ last.res.outcome = Error
                /\ last.res.status = Forbidden
                /\ last.res.error = FormError("NoHeaderPresent", "none")
                /\ last.res.vres = NotRun
           /\ last.res.form = NoPayload
           /\ \A i \in 1..Len(last.res.steps) : last.res.steps[i] # "parse"
C13_Witness ==
    /\ last.op = "Header"
    /\ last.v.kind = "KnownExpected"
    /\ last.header = last.v.expected
    /\ last.header # NoToken
    /\ last.res.outcome = Success

\* C14: whenever the verifier cannot be obtained, CheckCsrfProtectionHeader
\* fails with status 403 and NoVerifierFound.
C14_HeaderNoVerifierIs403 ==
    (last.op = "Header" /\ ~Available(last.v, last.req)) =>
        /\ last.res.outcome = Error
        /\ last.res.status = Forbidden
        /\ last.res.error = FormError("NoVerifierFound", "none")

\* C15: for the same verifier and the same accepted token, a successful
\* CheckCsrfProtectionHeader leaves the request's cache as a successful
\* CsrfProtectedForm run from the same request state would, and conversely,
\* so that a proof check answers the same after either.
FormTwin ==
    CsrfProtectedForm_from_data(last.v,
        [outcome |-> Success, status |-> NoStatus, err |-> "none",
         payload |-> Payload(last.header)],
        jar[last.req], <<>>, last.pre)
HeaderTwin ==
    CheckCsrfProtectionHeader_from_request(last.v, csrf_token(last.pin.payload),
        jar[last.req], <<>>, last.pre)
C15_HeaderAndFormPublishAlike ==
    /\ (last.op = "Header" /\ last.res.outcome = Success) =>
          /\ FormTwin.outcome = Success
          /\ FormTwin.cache = last.res.cache
          /\ FormTwin.vres = last.res.vres
          /\ CsrfCheckProof_from_request(FormTwin.cache).outcome
                = CsrfCheckProof_from_request(last.res.cache).outcome
    /\ (last.op = "Form" /\ last.res.outcome = Success) =>
          /\ HeaderTwin.outcome = Success
          /\ HeaderTwin.cache = last.res.cache
          /\ HeaderTwin.vres = last.res.vres
          /\ CsrfCheckProof_from_request(HeaderTwin.cache).outcome
                = CsrfCheckProof_from_request(last.res.cache).outcome
C15_Witness ==
    /\ last.op = "Header"
    /\ last.res.outcome = Success
    /\ last.pre = EmptyCache
    /\ last.res.cache[last.res.verifier.pkind] = last.res.vres.proof
    /\ FormTwin.cache = last.res.cache

\* The token a wrapper run gave to verify: the header's or the payload's.
TokenGiven ==
    IF last.op = "Header" THEN last.header ELSE csrf_token(last.pin.payload)

\* C16: for a verifier with a known expected token and either token source
\* (payload or header), verify gives Ok with the default proof of its Proof
\* type exactly when the token equals expected_token(), and CsrfTokenMismatch,
\* never Unknown, otherwise; so the token issued for the double-submit cookie
\* is rejected with 403 by a verifier expecting another token.
C16_KnownExpectedVerify ==
    (/\ last.op \in {"Form", "FormWithGuard", "Header"}
     /\ last.v.kind = "KnownExpected"
     /\ last.res.vres # NotRun) =>
        /\ last.res.vres.ok <=> TokenGiven = last.v.expected
        /\ last.res.vres.ok => last.res.vres = Ok(DefaultProof(last.v.pkind))
        /\ ~last.res.vres.ok => last.res.vres = Err("CsrfTokenMismatch")
        /\ (issuedTok # NoToken /\ TokenGiven = issuedTok /\ last.v.expected # issuedTok) =>
              /\ last.res.outcome = Error
              /\ last.res.status = Forbidden
C16_Witness ==
    /\ last.op = "Header"
    /\ last.v.kind = "KnownExpected"
    /\ issuedTok # NoToken
    /\ last.header = issuedTok
    /\ last.v.expected # issuedTok
    /\ last.res.vres = Err("CsrfTokenMismatch")
    /\ last.res.status = Forbidden

\* C17: set() (called directly or by serialization) queues the private
\* __Host-csrf-token cookie holding exactly the value it returns; a handler
\* holds a returned value only with that cookie queued, and the value handed
\* out with an answer is the value of the cookie the client then holds.
C17_SetWritesWhatItReturns ==
    /\ last.op = "Set" =>
          /\ ops[last.req] # <<>>
          /\ ops[last.req][Len(ops[last.req])] = AddOp(last.header)
          /\ Decrypt(Outgoing(jar[last.req], ops[last.req], NoCookie)) = last.header
          /\ last.header = handedTok[last.req]
    /\ \A r \in Reqs :
          handedTok[r] # NoToken =>
              \E i \in 1..Len(ops[r]) : ops[r][i] = AddOp(handedTok[r])
    /\ issuedTok # NoToken => Decrypt(clientCookie) = issuedTok
C17_Witness ==
    /\ issuedTok # NoToken
    /\ Decrypt(clientCookie) = issuedTok
    /\ last.op = "Set"
    /\ last.header # NoToken
    /\ ops[last.req][Len(ops[last.req])] = AddOp(last.header)

\* C18: every request in which the SetDoubleSubmitCookieCsrfToken guard ran
\* is answered with the __Host-csrf-token cookie set, whatever the handler did
\* with the guard value.
C18_GuardAloneSetsTheCookie ==
    [][\A r \in Reqs :
          (pc[r] = "running" /\ pc'[r] = "idle" /\ setGuard[r] # NoToken) =>
              /\ \E i \in 1..Len(ops[r]) : ops[r][i] = AddOp(setGuard[r])
              /\ clientCookie' # NoCookie]_vars

\* C19: a proof published in one request is never seen by a proof check of
\* another request, however the requests' steps interleave: a request's slot
\* holds a proof only after a verification of that same request, a proof check
\* succeeds only then, and a request that is not in flight has an empty cache.
C19_CachePerRequest ==
    /\ \A r \in Reqs :
          /\ pc[r] = "idle" => cache[r] = EmptyCache
          /\ cache[r]["CsrfCheckProof"] \notin {"Unset", "None"} => proved[r]
    /\ (last.op = "ProofCheck" /\ ~proved[last.req]) => last.res.outcome = Forward
C19_Witness ==
    /\ last.op = "ProofCheck"
    /\ last.res.outcome = Forward
    /\ \E q \in Reqs \ {last.req} :
          /\ pc[q] = "running"
          /\ proved[q]
          /\ cache[q]["CsrfCheckProof"] = PassedCsrfChecks

C21_LastProofWins ==
    (/\ last.op \in {"Form", "FormWithGuard", "Header"}
     /\ last.res.vres.ok
     /\ last.pre[last.res.verifier.pkind] \in ProofValues(last.res.verifier.pkind)) =>
        cache[last.req][last.res.verifier.pkind] = last.res.vres.proof

\* C22: the run that just happened, made again from the same request state
\* with submitted token t and expected token e in place of its own.
TwinV(e) == IF last.v.kind = "KnownExpected" THEN [last.v EXCEPT !.expected = e] ELSE last.v
TwinJar(e) == IF last.v.kind = "DoubleSubmit" THEN Encrypt(e) ELSE jar[last.req]
TwinPIn(t) ==
    [outcome |-> Success, status |-> NoStatus, err |-> "none", payload |-> Payload(t)]
TwinRun(t, e) ==
    CASE last.op = "Form" ->
            CsrfProtectedForm_from_data(TwinV(e), TwinPIn(t), TwinJar(e), <<>>, last.pre)
      [] last.op = "FormWithGuard" ->
            CsrfProtectedFormWithGuard_from_data(TwinV(e), TwinPIn(t), last.gs, TwinJar(e),
                                                 <<>>, last.pre)
      [] OTHER ->
            CheckCsrfProtectionHeader_from_request(TwinV(e), t, TwinJar(e), <<>>, last.pre)
Observable(res) ==
    <<res.outcome, res.status, res.error, res.form, res.proof, res.guard, res.vres,
      res.cache>>

\* C22: two runs of a wrapper that differ only in the submitted and the
\* expected token and both fail verification have the same outcome, status
\* (403), error variant and verify error, none of which holds a token; two runs
\* that both pass verification with a double-submit or known-expected verifier
\* publish the same proof.
C22_NoTokenInOutcomes ==
    (/\ last.op \in {"Form", "FormWithGuard", "Header"}
     /\ last.res.vres # NotRun) =>
        \A t, e \in Tokens :
            LET twin == TwinRun(t, e) IN
            /\ (~last.res.vres.ok /\ ~twin.vres.ok) =>
                  /\ Observable(twin) = Observable(last.res)
                  /\ last.res.status = Forbidden
                  /\ last.res.error.value = "none"
                  /\ last.res.vres.err \in {"CsrfTokenMismatch", "Unknown"}
            /\ (last.res.vres.ok /\ twin.vres.ok
                  /\ last.v.kind \in {"DoubleSubmit", "KnownExpected"}) =>
                  /\ twin.vres = last.res.vres
                  /\ twin.cache = last.res.cache
                  /\ twin.proof = last.res.proof
C22_Witness ==
    /\ last.op = "Form"
    /\ last.v.kind = "DoubleSubmit"
    /\ last.res.vres = Err("CsrfTokenMismatch")
    /\ \E t, e \in Tokens :
          /\ t # csrf_token(last.pin.payload)
          /\ e # Decrypt(jar[last.req])
          /\ ~TwinRun(t, e).vres.ok
          /\ Observable(TwinRun(t, e)) = Observable(last.res)

\* The number of queued cookie operations of one kind in a request.
RECURSIVE CountOps(_, _)
CountOps(seq, kind) ==
    IF seq = <<>> THEN 0
    ELSE (IF Head(seq)[1] = kind THEN 1 ELSE 0) + CountOps(Tail(seq), kind)

C24_OnlyIssueWritesTheCookie ==
    /\ \A r \in Reqs :
          \A i \in 1..Len(ops[r]) :
              ops[r][i][1] = "add" =>
                  /\ setGuard[r] # NoToken
                  /\ handedTok[r] = setGuard[r]
                  /\ ops[r][i] = AddOp(setGuard[r])
    /\ (/\ last.op \in {"Form", "FormWithGuard", "Header", "Verifier", "ProofCheck"}
        /\ handedTok[last.req] = NoToken) => CountOps(last.res.ops, "add") = 0
    /\ (last.op = "IssueGuard" /\ last.res.outcome = Success) =>
          setGuard[last.req] = last.header
    /\ burned => clientCookie = NoCookie
C24_Witness ==
    /\ burned
    /\ last.op = "Set"
    /\ ops[last.req] = <<AddOp(setGuard[last.req])>>

TokenName == IF expansion.args = <<>> THEN "csrf_token" ELSE expansion.args[1]
FieldsNamed(fields, n) == {i \in 1..Len(fields) : fields[i].ident = n}
LifetimeParams(item) ==
    {i \in 1..Len(item.generics) : item.generics[i].kind = "lifetime"}
Expanded == expansion.op = "expanded" /\ ~expansion.out.error

\* C26: with_csrf_token without an argument on a struct with named fields and
\* no csrf_token field appends exactly one field csrf_token, of type &'l str
\* when the struct has exactly one lifetime parameter 'l and of type String
\* when it has none or several, whatever its other generic parameters.
C26_DefaultFieldInjection ==
    (/\ Expanded
     /\ expansion.item.shape = "Named"
     /\ expansion.args = <<>>
     /\ FieldsNamed(expansion.item.fields, "csrf_token") = {}) =>
        LET ls == LifetimeParams(expansion.item)
            ty == IF Cardinality(ls) = 1
                  THEN RefStr(expansion.item.generics[CHOOSE i \in ls : TRUE].ident)
                  ELSE String
        IN expansion.out.item_struct.fields
              = Append(expansion.item.fields, Field("csrf_token", ty))

\* C27: on a struct with named fields the token field is the argument n, or
\* csrf_token without one: csrf_token() reads that field; a declared field of
\* that name is kept as declared and nothing is added; otherwise exactly one
\* field of that name is appended; no csrf_token field is injected when n is
\* another name; the expanded struct has exactly one field of the token name.
C27_FieldOverrideNoDuplicate ==
    (Expanded /\ expansion.item.shape = "Named") =>
        LET before == expansion.item.fields
            after == expansion.out.item_struct.fields
        IN /\ expansion.out.ident = TokenName
           /\ FieldsNamed(before, TokenName) # {} => after = before
           /\ FieldsNamed(before, TokenName) = {} =>
                /\ Len(after) = Len(before) + 1
                /\ SubSeq(after, 1, Len(before)) = before
                /\ after[Len(after)].ident = TokenName
           /\ TokenName # "csrf_token" =>
                FieldsNamed(after, "csrf_token") = FieldsNamed(before, "csrf_token")
           /\ Cardinality(FieldsNamed(after, TokenName)) = 1
           /\ expansion.out.item_struct.generics = expansion.item.generics
C27_Witness ==
    /\ Expanded
    /\ expansion.item.shape = "Named"
    /\ expansion.args = <<"token">>
    /\ FieldsNamed(expansion.item.fields, "token") = {}
    /\ FieldsNamed(expansion.out.item_struct.fields, "token") # {}
    /\ FieldsNamed(expansion.out.item_struct.fields, "csrf_token") = {}

\* C28: every struct that with_csrf_token expands without an error, whatever
\* its shape and whatever the type of a declared field of the token name, has
\* after expansion a field of the token name whose type is String or &str.
C28_TokenFieldIsAString ==
    Expanded =>
        \E i \in 1..Len(expansion.out.item_struct.fields) :
            /\ expansion.out.item_struct.fields[i].ident = expansion.out.ident
            /\ expansion.out.item_struct.fields[i].ty.ty \in {"String", "&str"}

\* C29: every run of CsrfProtectedForm::from_data goes through extract, parse,
\* verify, publish in that order, starts a step only when the one before it
\* succeeded, and returns Success exactly after all four, with the proof it
\* returns in the request's cache.
FormSteps == <<"extract", "parse", "verify", "publish">>
C29_FormStepsInOrder ==
    last.op = "Form" =>
        LET n == Len(last.res.steps) IN
        /\ n \in 1..4
        /\ last.res.steps = SubSeq(FormSteps, 1, n)
        /\ n >= 2 => Available(last.v, last.req)
        /\ n >= 3 => last.pin.outcome = Success
        /\ n = 4 => last.res.vres.ok
        /\ last.res.outcome = Success <=> n = 4
        /\ last.res.outcome = Success =>
              cache[last.req][last.res.verifier.pkind] = last.res.proof

\* C30: in the guarded form G runs exactly when verification passed, after the
\* proof was published; so with an empty cache at the start and a verifier
\* whose proof is a CsrfCheckProof, a G that is the CsrfCheckProof check
\* succeeds whenever verification passed. G does not run when the verifier is
\* missing, the payload does not parse or verification fails.
C30_GuardRunsAfterPublish ==
    last.op = "FormWithGuard" =>
        LET verified == /\ Available(last.v, last.req)
                        /\ last.pin.outcome = Success
                        /\ Verdict(last.v, last.req, last.pin.payload).ok
        IN /\ last.res.guard.ran <=> verified
           /\ last.res.guard.ran =>
                last.res.steps = <<"extract", "parse", "verify", "publish", "guard">>
           /\ ~verified => last.gs = NoGSel /\ last.res.guard = NoGuard
           /\ (/\ verified
               /\ last.pre = EmptyCache
               /\ last.gs.kind = "CsrfCheckProof"
               /\ last.res.verifier.pkind = "CsrfCheckProof") =>
                /\ last.res.outcome = Success
                /\ last.res.guard.value = last.res.vres.proof
                /\ cache[last.req]["CsrfCheckProof"] = last.res.vres.proof
C30_Witness ==
    /\ last.op = "FormWithGuard"
    /\ last.pre = EmptyCache
    /\ last.gs.kind = "CsrfCheckProof"
    /\ last.res.outcome = Success
    /\ last.res.guard.value = PassedCsrfChecks

\* C31: a CsrfProtectedFormWithGuard::from_data that does not succeed, whatever
\* the reason (G failing or forwarding after a passed verification included),
\* leaves the request's cache as it was before the call.
C31_FailedGuardedFormLeavesCache ==
    (last.op = "FormWithGuard" /\ last.res.outcome # Success) =>
        cache[last.req] = last.pre

\* C32: a CsrfCheckProof check leaves the request's cache as it was, and a
\* verification that succeeds after a check forwarded still publishes its
\* proof.
C32_ProofCheckIsAPureRead ==
    /\ last.op = "ProofCheck" => cache[last.req] = last.pre
    /\ (/\ last.op \in {"Form", "FormWithGuard", "Header"}
        /\ last.res.vres.ok
        /\ last.pre[last.res.verifier.pkind] = "None") =>
            cache[last.req][last.res.verifier.pkind] = last.res.vres.proof

\* C33: the verdict of a double-submit verifier is decided by the cookie value
\* the request came with, read when the verifier was built, and the submitted
\* token: a removal or a set() queued in the request since then does not
\* change it, and verify leaves the pending cookie operations, the cookies of
\* the request and the cache as they were.
C33_ExpectedFixedAtConstruction ==
    [][last'.op = "Verify" =>
          /\ last'.res.verifier.expected = Decrypt(jar[last'.req])
          /\ last'.res.vres.ok <=> last'.header = Decrypt(jar[last'.req])
          /\ ops' = ops /\ jar' = jar /\ cache' = cache]_vars
C33_Witness ==
    /\ last.op = "Verify"
    /\ last.res.vres.ok
    /\ \E i \in 1..Len(ops[last.req]) :
          /\ ops[last.req][i][1] = "add"
          /\ Decrypt(ops[last.req][i][2]) # last.header

\* C34: when the random source fails while a Set guard is built, no token is
\* produced, no cookie is written, and the guard ends in an error, neither in
\* a forward to another route nor in a success.
C34_RandomFailureIsFatal ==
    (last.op = "IssueGuard" /\ last.header = NoToken) =>
        /\ setGuard[last.req] = NoToken
        /\ ops[last.req] = last.res.ops
        /\ handedTok[last.req] = NoToken
        /\ last.res.outcome = Error

\* C35: every cookie built by set() is named __Host-csrf-token, carries the
\* guard's token and is Secure; the three exported guard types give Strict
\* with 600 s, Lax with 600 s and None with 20 s; SameSite is Lax only for the
\* Lax selector, None only for the None selector, and Strict for every other
\* selector; Max-Age is the type's EXPIRY.
BuiltPolicy ==
    [same_site |-> built.cookie.same_site, max_age |-> built.cookie.max_age]
C35_CookiePolicyTable ==
    built.op = "set" =>
        LET config == [SS |-> built.SS, EXPIRY |-> built.EXPIRY] IN
        /\ built.cookie.secure
        /\ built.cookie.name = "__Host-csrf-token"
        /\ built.cookie.value = built.csrf_token
        /\ built.returned = built.csrf_token
        /\ built.cookie.max_age = built.EXPIRY
        /\ config = SetDoubleSubmitCookieCsrfToken =>
              BuiltPolicy = [same_site |-> "Strict", max_age |-> 600]
        /\ config = SetLaxDoubleSubmitCookieCsrfToken =>
              BuiltPolicy = [same_site |-> "Lax", max_age |-> 600]
        /\ config = SetNoneDoubleSubmitCookieCsrfToken_DO_NOT_USE_UNLESS_YOU_ARE_SURE =>
              BuiltPolicy = [same_site |-> "None", max_age |-> 20]
        /\ built.cookie.same_site = "Lax" <=> built.SS = 1
        /\ built.cookie.same_site = "None" <=> built.SS = 2
        /\ built.SS \notin {1, 2} => built.cookie.same_site = "Strict"
C35_Witness ==
    /\ built.op = "set"
    /\ built.SS = -1
    /\ built.cookie.same_site = "Strict"
    /\ built.cookie.secure

\* C36: a slot of the cache holds only proofs of its own kind; a verification
\* publishes into the slot of its verifier's proof kind and into no other; a
\* CsrfCheckProof check succeeds only if a verifier whose proof is a
\* CsrfCheckProof succeeded in the request, and forwards when only
\* verifications of another kind did.
C36_ProofKindsKeptApart ==
    /\ \A r \in Reqs : \A k \in ProofKinds :
          cache[r][k] \in {"Unset", "None"} \cup ProofValues(k)
    /\ last.op \in {"Form", "FormWithGuard", "Header"} =>
          \A k \in ProofKinds \ {last.res.verifier.pkind} :
              cache[last.req][k] \in {last.pre[k], "None"}
    /\ last.op = "ProofCheck" =>
          /\ last.res.outcome = Success =>
                /\ proved[last.req]
                /\ last.res.proof \in ProofValues("CsrfCheckProof")
          /\ ~proved[last.req] => last.res.outcome = Forward
    /\ (last.op = "FormWithGuard" /\ last.gs.kind = "CsrfCheckProof"
          /\ last.res.verifier.pkind # "CsrfCheckProof" /\ ~proved[last.req]) =>
              last.res.outcome # Success
C36_Witness ==
    /\ last.op = "ProofCheck"
    /\ cache[last.req]["StepUp"] \in ProofValues("StepUp")
    /\ ~proved[last.req]
    /\ last.res.outcome = Forward

====
